---------------------------- MODULE Spec2Model ----------------------------
(***************************************************************************)
(* Model of mproject (src/src/mproject/__init__.py): OwnerRepo (URL        *)
(* derivation and parsing), ProjectPy (dependency list, pip_install) and   *)
(* EnvBuilder (create an environment or ensure the directories of an       *)
(* existing one).                                                          *)
(*                                                                         *)
(* Text is modelled as sequences of one-character strings, so that         *)
(* prefixes, suffixes and encodings are computed and not assumed.          *)
(***************************************************************************)
EXTENDS Integers, Sequences, FiniteSets, TLC

VARIABLES
    in_owner,   \* the owner string given to the OwnerRepo operations
    in_repo,    \* the repo (or path) string given to the OwnerRepo operations
    obj,        \* the OwnerRepo instance last constructed (NoObj when none)
    call,       \* the last OwnerRepo operation: its inputs and its outcome
    in_env_dir, \* the env_dir given to the EnvBuilder constructions
    setup_cfg,  \* whether <top>/setup.cfg exists
    cfg_install,\* setup.cfg options: install_requires (a list of names)
    cfg_extras, \* setup.cfg options: extras_require (the dict's values, in order)
    fs,         \* the environment directories on disk
    builder,    \* the EnvBuilder the last construction returned
    proj,       \* the ProjectPy the last construction returned
    log,        \* the calls made during the last operation, in order
    opr         \* the last EnvBuilder / ProjectPy operation and its outcome

urlVars == <<in_owner, in_repo, obj, call>>
envVars == <<in_env_dir, setup_cfg, cfg_install, cfg_extras, fs, builder, proj, log, opr>>
vars == <<in_owner, in_repo, obj, call, in_env_dir, setup_cfg, cfg_install, cfg_extras, fs, builder,
          proj, log, opr>>

-----------------------------------------------------------------------------
(* Bounds of the model *)

\* longest owner string drawn as an input
MaxOwnerLen == 1
\* longest repo / path string drawn as an input
MaxRepoLen == 4
\* longest install_requires list, and longest list of one extra, drawn
MaxDeps == 2
\* most extras (groups) of extras_require drawn
MaxExtras == 2
\* the external call of one operation that may be chosen to fail (0: none)
MaxFailAt == 4

\* characters the inputs are drawn from: a name character, the suffix
\* separator and the path separator
Alphabet == {"a", ".", "/"}

-----------------------------------------------------------------------------
(* Text helpers *)

RECURSIVE StringsUpTo(_)
StringsUpTo(n) ==
    IF n = 0 THEN {<<>>}
    ELSE LET shorter == StringsUpTo(n - 1)
         IN  shorter \cup {Append(s, c) : s \in {t \in shorter : Len(t) = n - 1}, c \in Alphabet}

startswith(s, p) == Len(s) >= Len(p) /\ SubSeq(s, 1, Len(p)) = p

RECURSIVE Join(_, _)
\* sep.join(parts)
Join(parts, sep) ==
    IF parts = <<>> THEN <<>>
    ELSE IF Len(parts) = 1 THEN parts[1]
    ELSE parts[1] \o sep \o Join(Tail(parts), sep)

RECURSIVE Split(_, _)
\* s.split(sep) for a one-character sep: always at least one (maybe empty) part
Split(s, sep) ==
    IF s = <<>> THEN << <<>> >>
    ELSE LET rest == Split(Tail(s), sep)
         IN  IF Head(s) = sep THEN << <<>> >> \o rest
             ELSE << <<Head(s)>> \o rest[1] >> \o Tail(rest)

RECURSIVE rfind(_, _)
\* s.rfind(c), 0-based as in Python; -1 when c does not occur
rfind(s, c) ==
    IF s = <<>> THEN -1
    ELSE IF s[Len(s)] = c THEN Len(s) - 1
    ELSE rfind(SubSeq(s, 1, Len(s) - 1), c)

SelectParts(parts) == SelectSeq(parts, LAMBDA p : p # <<>> /\ p # <<".">>)

-----------------------------------------------------------------------------
(* Module constants *)

GIT_DEFAULT_SCHEME == "https"

GITHUB_DOMAIN == <<"g","i","t","h","u","b",".","c","o","m">>

GitScheme == {"git+file", "git+https", "git+ssh", "https", "ssh"}

SchemeText(scheme) ==
    CASE scheme = "git+file"  -> <<"g","i","t","+","f","i","l","e">>
      [] scheme = "git+https" -> <<"g","i","t","+","h","t","t","p","s">>
      [] scheme = "git+ssh"   -> <<"g","i","t","+","s","s","h">>
      [] scheme = "https"     -> <<"h","t","t","p","s">>
      [] scheme = "ssh"       -> <<"s","s","h">>

\* GITHUB_URL[scheme]: "join directly the user or path without '/' or ':'"
GITHUB_URL(scheme) ==
    CASE scheme = "git+file"  -> SchemeText("git+file") \o <<":","/","/","/">>
      [] scheme = "git+https" -> SchemeText("git+https") \o <<":","/","/">> \o GITHUB_DOMAIN \o <<"/">>
      [] scheme = "git+ssh"   -> SchemeText("git+ssh") \o <<":","/","/","g","i","t","@">> \o GITHUB_DOMAIN \o <<"/">>
      [] scheme = "https"     -> SchemeText("https") \o <<":","/","/">> \o GITHUB_DOMAIN \o <<"/">>
      [] scheme = "ssh"       -> <<"g","i","t","@">> \o GITHUB_DOMAIN \o <<":">>

DotGit == <<".","g","i","t">>


-----------------------------------------------------------------------------
(* pathlib (PurePosixPath) as the code uses it *)

\* the components of a path: empty and "." components are dropped
PathParts(s) == SelectParts(Split(s, "/"))

\* the root: "/" or (for exactly two leading slashes) "//"; empty if relative
PathRoot(s) ==
    IF startswith(s, <<"/","/">>) /\ ~startswith(s, <<"/","/","/">>) THEN <<"/","/">>
    ELSE IF startswith(s, <<"/">>) THEN <<"/">>
    ELSE <<>>

\* Path(s).name
PathName(s) ==
    LET parts == PathParts(s) IN IF parts = <<>> THEN <<>> ELSE parts[Len(parts)]

\* Path(s).parent.name
PathParentName(s) ==
    LET parts == PathParts(s) IN IF Len(parts) < 2 THEN <<>> ELSE parts[Len(parts) - 1]

\* PurePath.suffix of a final component
PathSuffix(name) ==
    LET i == rfind(name, ".")
    IN  IF 0 < i /\ i < Len(name) - 1 THEN SubSeq(name, i + 1, Len(name)) ELSE <<>>

\* the name with_suffix() builds: an existing suffix is replaced, not kept
WithSuffixName(name, suffix) ==
    LET old == PathSuffix(name)
    IN  IF old = <<>> THEN name \o suffix
        ELSE SubSeq(name, 1, Len(name) - Len(old)) \o suffix

\* str(Path(s).absolute().with_suffix(suffix)) for s starting with "/";
\* raised = "ValueError" when the path has an empty name
with_suffix(s, suffix) ==
    LET parts == PathParts(s)
    IN  IF parts = <<>>
        THEN [raised |-> "ValueError", str |-> <<>>]
        ELSE [raised |-> "None",
              str |-> PathRoot(s) \o
                      Join(SubSeq(parts, 1, Len(parts) - 1)
                             \o <<WithSuffixName(parts[Len(parts)], suffix)>>, <<"/">>)]

-----------------------------------------------------------------------------
(* furl, as far as url() and from_url() use it *)

NoFurl == [scheme |-> "", username |-> <<>>, host |-> <<>>, path |-> <<>>]

\* quote(segment, SAFE_SEGMENT_CHARS): "/" is not safe inside one segment
RECURSIVE QuoteSegment(_)
QuoteSegment(seg) ==
    IF seg = <<>> THEN <<>>
    ELSE (IF Head(seg) = "/" THEN <<"%","2","F">> ELSE <<Head(seg)>>) \o QuoteSegment(Tail(seg))

QuoteSegments(segs) == [i \in 1..Len(segs) |-> QuoteSegment(segs[i])]

\* furl.netloc: [username@]host
Netloc(f) ==
    (IF f.username # <<>> THEN f.username \o <<"@">> ELSE <<>>) \o f.host

\* str(furl): scheme ":" ["//" netloc "/"] segments joined by "/"; a path is
\* absolute only when there is a netloc
FurlStr(f) ==
    LET pathstr == Join(QuoteSegments(f.path), <<"/">>)
    IN  SchemeText(f.scheme) \o <<":">> \o
        (IF Netloc(f) # <<>> THEN <<"/","/">> \o Netloc(f) \o <<"/">> \o pathstr
         ELSE pathstr)

-----------------------------------------------------------------------------
(* class OwnerRepo *)

NoObj == [live |-> FALSE, owner |-> <<>>, repo |-> <<>>]

\* __post_init__: the exception a construction raises ("None": it succeeds)
OwnerRepo_post_init(owner, repo) ==
    IF owner = <<>> \/ repo = <<>> THEN "ValueError" ELSE "None"

\* cls(owner=..., repo=...): the exception and the instance (NoObj if raised)
OwnerRepo(owner, repo) ==
    LET raised == OwnerRepo_post_init(owner, repo)
    IN  [raised |-> raised,
         obj |-> IF raised = "None" THEN [live |-> TRUE, owner |-> owner, repo |-> repo]
                 ELSE NoObj]

\* from_path: cls(owner=path.parent.name, repo=path.name)
from_path(path) == OwnerRepo(PathParentName(path), PathName(path))

\* from_url for a str url: the outcomes the body can have.  The membership
\* test '"@" in url' is applied to the furl object: it raises TypeError if
\* furl offers no membership protocol; if it evaluates, the true branch binds
\* owner only and the name repo is undefined (NameError), and the false
\* branch binds nothing, so owner is unbound.  cls(...) is never reached.
from_url(text) ==
    {[raised |-> "TypeError", obj |-> NoObj]}
    \cup (IF \E i \in 1..Len(text) : text[i] = "@"
          THEN {[raised |-> "NameError", obj |-> NoObj]}
          ELSE {[raised |-> "UnboundLocalError", obj |-> NoObj]})

\* a plausible slip: the absolute-path test made for every scheme
UrlRejects_AllSchemes(self, scheme) == ~startswith(self.repo, <<"/">>)

\* the ValueError test of url(): only for "git+file", on a relative repo
UrlRejects(self, scheme) == scheme = "git+file" /\ ~startswith(self.repo, <<"/">>)

\* whether url() adds username="git"
UrlUsesGitUser(scheme) == scheme \in {"git+ssh", "ssh"}

\* url(self, scheme): the exception, the furl built and its text
url(self, scheme) ==
    IF UrlRejects(self, scheme)
    THEN [raised |-> "ValueError", why |-> "relative", ret |-> NoFurl, str |-> <<>>]
    ELSE IF scheme = "git+file"
    THEN LET p == with_suffix(self.repo, DotGit)
         IN  IF p.raised # "None"
             THEN [raised |-> p.raised, why |-> "empty name", ret |-> NoFurl, str |-> <<>>]
             ELSE LET f == [scheme |-> scheme, username |-> <<>>, host |-> <<>>,
                            path |-> <<p.str>>]
                  IN  [raised |-> "None", why |-> "", ret |-> f, str |-> FurlStr(f)]
    ELSE LET f == [scheme |-> scheme,
                   username |-> IF UrlUsesGitUser(scheme) THEN <<"g","i","t">> ELSE <<>>,
                   host |-> GITHUB_DOMAIN,
                   path |-> <<self.owner, self.repo>>]
         IN  [raised |-> "None", why |-> "", ret |-> f, str |-> FurlStr(f)]

-----------------------------------------------------------------------------
(* Dependency names and their order *)

\* venv.CORE_VENV_DEPS
CORE_VENV_DEPS ==
    <<"build", "darling", "icecream", "ipython", "pip", "pip-tools", "pytest",
      "pytest-asyncio", "rich", "setuptools", "setuptools_scm", "tox", "wheel">>

\* the names of the model in the order str comparison (by code point) gives
\* them, which is the order sorted() uses
NameOrder ==
    <<"build", "click", "darling", "icecream", "ipython", "pip", "pip-tools", "pytest",
      "pytest-asyncio", "rich", "setuptools", "setuptools_scm", "toml", "tox", "wheel">>

Names == {NameOrder[i] : i \in 1..Len(NameOrder)}

Rank == [name \in Names |-> CHOOSE i \in 1..Len(NameOrder) : NameOrder[i] = name]

\* a <= b for two names
NameLeq(a, b) == Rank[a] <= Rank[b]

\* names a setup.cfg of the model may list: one that CORE_VENV_DEPS holds and
\* one that it does not
InputDeps == {"click", "pip"}

RECURSIVE InsertSorted(_, _)
InsertSorted(sortedSeq, x) ==
    IF sortedSeq = <<>> THEN <<x>>
    ELSE IF NameLeq(x, Head(sortedSeq)) THEN <<x>> \o sortedSeq
    ELSE <<Head(sortedSeq)>> \o InsertSorted(Tail(sortedSeq), x)

RECURSIVE InsertionSort(_)
InsertionSort(seq) ==
    IF seq = <<>> THEN <<>> ELSE InsertSorted(InsertionSort(Tail(seq)), Head(seq))

\* a plausible slip: the combined list left in the order it was joined
sorted_Unsorted(seq) == seq

\* sorted(seq): every element kept, in ascending order
sorted(seq) == InsertionSort(seq)

RECURSIVE SetToSeq(_)
SetToSeq(S) ==
    IF S = {} THEN <<>> ELSE LET x == CHOOSE x \in S : TRUE IN <<x>> \o SetToSeq(S \ {x})

\* {dep for extra in extras_require.values() for dep in extra}
ExtrasSet(extras) ==
    UNION {{extras[i][j] : j \in 1..Len(extras[i])} : i \in 1..Len(extras)}

\* self.extras_require
extras_require(extras) == sorted(SetToSeq(ExtrasSet(extras)))

\* self.install_requires
install_requires(install) == install

\* self.requirements
requirements(install, extras) ==
    sorted(install_requires(install) \o extras_require(extras) \o CORE_VENV_DEPS)

\* the number of programs one pip_install runs
PipCalls == 2

\* pip_install_options, pip_upgrade_options
pip_install_options == <<"-m", "pip", "install", "--quiet", "--no-warn-script-location">>
pip_upgrade_options == pip_install_options \o <<"--upgrade">>

-----------------------------------------------------------------------------
(* The environment on disk, EnvBuilder and ProjectPy *)

\* environment directories of the model: <top>/venv and one other target
Dirs == {"venv", "env2"}

\* venv.__name__: the directory ProjectPy builds under <top>
VenvName == "venv"

Absent == [exists |-> FALSE, dirs |-> FALSE, cfg |-> FALSE, python |-> FALSE,
           pip |-> FALSE, scripts |-> FALSE, created |-> 0]
EmptyDir == [Absent EXCEPT !.exists = TRUE]
FullEnv == [exists |-> TRUE, dirs |-> TRUE, cfg |-> TRUE, python |-> TRUE,
            pip |-> TRUE, scripts |-> TRUE, created |-> 0]

NoBuilder == [live |-> FALSE, env_dir |-> "None", context |-> "None"]
NoProj == [live |-> FALSE, python_exe_site |-> "None", python_exe_venv |-> "None",
           install_requires |-> <<>>, extras_require |-> <<>>, requirements |-> <<>>,
           venv |-> NoBuilder]

\* one call of the log
Ev(ev, dir, by, depth) ==
    [ev |-> ev, dir |-> dir, by |-> by, depth |-> depth, exe |-> "", opts |-> <<>>,
     pkgs |-> <<>>, rc |-> 0]

\* context.env_exec_cmd of the context ensure_directories returns
env_exec_cmd(dir) == IF dir = "venv" THEN "venv/bin/python" ELSE "env2/bin/python"

\* The operations below thread a record st through the calls of one
\* operation: the disk (fs), the log, the exception in flight (raised), the
\* nesting depth of ProjectPy constructions, and fail, the number of external
\* calls still to go until the one that exits non-zero (0: none does).
\* A raised exception propagates: every later call is skipped.

\* a plausible slip: subprocess.call in place of check_call (the exit status
\* is returned and dropped, nothing is raised)
check_call_NoRaise(st, exe, opts, pkgs) ==
    IF st.raised # "None" THEN st
    ELSE [st EXCEPT !.log = Append(@, [Ev("check_call", "", "pip_install", st.depth)
                                         EXCEPT !.exe = exe, !.opts = opts, !.pkgs = pkgs,
                                                !.rc = IF st.fail = 1 THEN 1 ELSE 0]),
                    !.fail = IF @ > 0 THEN @ - 1 ELSE 0]

\* subprocess.check_call: a non-zero exit raises CalledProcessError
check_call(st, exe, opts, pkgs) ==
    IF st.raised # "None" THEN st
    ELSE [st EXCEPT !.log = Append(@, [Ev("check_call", "", "pip_install", st.depth)
                                         EXCEPT !.exe = exe, !.opts = opts, !.pkgs = pkgs,
                                                !.rc = IF st.fail = 1 THEN 1 ELSE 0]),
                    !.fail = IF @ > 0 THEN @ - 1 ELSE 0,
                    !.raised = IF st.fail = 1 THEN "CalledProcessError" ELSE "None"]

\* a plausible slip: the options of the second program chosen the wrong way
\* round (quiet install when upgrade is asked, upgrade when it is not)
pip_install_SwappedOptions(st, self, args, site, upgrade) ==
    IF st.raised # "None" THEN st
    ELSE LET executable == IF site THEN self.python_exe_site ELSE self.python_exe_venv
             s0 == [st EXCEPT !.log = Append(@, Ev("pip_install", "", "", st.depth))]
         IN  IF executable = "None" THEN [s0 EXCEPT !.raised = "TypeError"]
             ELSE check_call(
                      check_call(s0, executable, pip_upgrade_options, <<"pip", "wheel">>),
                      executable,
                      IF upgrade THEN pip_install_options ELSE pip_upgrade_options,
                      IF args # <<>> THEN args ELSE self.requirements)

\* ProjectPy.pip_install(*args, site, upgrade); an executable of None makes
\* the first check_call raise TypeError before any program is run
pip_install(st, self, args, site, upgrade) ==
    IF st.raised # "None" THEN st
    ELSE LET executable == IF site THEN self.python_exe_site ELSE self.python_exe_venv
             s0 == [st EXCEPT !.log = Append(@, Ev("pip_install", "", "", st.depth))]
         IN  IF executable = "None" THEN [s0 EXCEPT !.raised = "TypeError"]
             ELSE check_call(
                      check_call(s0, executable, pip_upgrade_options, <<"pip", "wheel">>),
                      executable,
                      IF upgrade THEN pip_upgrade_options ELSE pip_install_options,
                      IF args # <<>> THEN args ELSE self.requirements)

\* EnvBuilder.ensure_directories (and venv.EnvBuilder's): with clear, the
\* content of an existing directory is deleted; the directory and its
\* structure are made; self.context is set by the caller below
ensure_directories(st, env_dir, clear, by) ==
    IF st.raised # "None" THEN st
    ELSE [st EXCEPT
            !.log = Append(@, Ev("ensure_directories", env_dir, by, st.depth)),
            !.fs[env_dir] =
                IF @.exists /\ clear
                THEN [Absent EXCEPT !.exists = TRUE, !.dirs = TRUE,
                                    !.created = st.fs[env_dir].created]
                ELSE [@ EXCEPT !.exists = TRUE, !.dirs = TRUE]]

\* one step of venv.EnvBuilder.create
CreateStep(st, env_dir, ev) ==
    IF st.raised # "None" THEN st
    ELSE [st EXCEPT
            !.log = Append(@, Ev(ev, env_dir, "create", st.depth)),
            !.fs[env_dir] =
                CASE ev = "create_configuration" -> [@ EXCEPT !.cfg = TRUE]
                  [] ev = "setup_python" -> [@ EXCEPT !.python = TRUE]
                  [] ev = "_setup_pip" -> [@ EXCEPT !.pip = TRUE]
                  [] ev = "setup_scripts" -> [@ EXCEPT !.scripts = TRUE]]

RECURSIVE ProjectPyInit(_)

\* EnvBuilder.post_setup: ProjectPy().pip_install()
post_setup(st, env_dir) ==
    IF st.raised # "None" THEN st
    ELSE LET s0 == [st EXCEPT !.log = Append(@, Ev("post_setup", env_dir, "create", st.depth))]
             r == ProjectPyInit(s0)
         IN  pip_install(r.st, r.proj, <<>>, FALSE, FALSE)

\* EnvBuilder.create, with venv.EnvBuilder.create: ensure_directories,
\* create_configuration, setup_python, _setup_pip if with_pip, and unless
\* upgrade setup_scripts and post_setup
create(st, env_dir, o) ==
    IF st.raised # "None" THEN st
    ELSE LET s0 == [st EXCEPT !.log = Append(@, Ev("create", env_dir, "__post_init__", st.depth)),
                              !.fs[env_dir].created = @ + 1]
             s1 == ensure_directories(s0, env_dir, o.clear, "create")
             s2 == CreateStep(s1, env_dir, "create_configuration")
             s3 == CreateStep(s2, env_dir, "setup_python")
             s4 == IF o.with_pip THEN CreateStep(s3, env_dir, "_setup_pip") ELSE s3
         IN  IF o.upgrade THEN s4
             ELSE post_setup(CreateStep(s4, env_dir, "setup_scripts"), env_dir)

\* 'if self.env_dir:' : None and the empty string name no directory
EnvDirGiven(env_dir) == env_dir \notin {"None", ""}

\* a plausible slip: an existing environment set up again as if upgraded
EnsureExisting_Resetup(st, env_dir, o) ==
    CreateStep(CreateStep(ensure_directories(st, env_dir, o.clear, "__post_init__"),
                          env_dir, "create_configuration"), env_dir, "setup_python")

\* the branch of __post_init__ for an env_dir that exists
EnsureExisting(st, env_dir, o) == ensure_directories(st, env_dir, o.clear, "__post_init__")

\* a plausible slip: the directories ensured by the constructor before create
CreateMissing_EnsureFirst(st, env_dir, o) ==
    create(ensure_directories(st, env_dir, o.clear, "__post_init__"), env_dir, o)

\* the branch of __post_init__ for an env_dir that does not exist
CreateMissing(st, env_dir, o) == create(st, env_dir, o)

\* EnvBuilder(env_dir=..., clear=..., with_pip=..., upgrade=...): __post_init__
EnvBuilderInit(st, env_dir, o) ==
    IF st.raised # "None" THEN [st |-> st, builder |-> NoBuilder]
    ELSE IF ~EnvDirGiven(env_dir)
    THEN [st |-> st, builder |-> [live |-> TRUE, env_dir |-> env_dir, context |-> "None"]]
    ELSE LET s1 == IF st.fs[env_dir].exists THEN EnsureExisting(st, env_dir, o)
                   ELSE CreateMissing(st, env_dir, o)
         IN  [st |-> s1,
              builder |-> IF s1.raised # "None" THEN NoBuilder
                          ELSE [live |-> TRUE, env_dir |-> env_dir, context |-> env_dir]]

\* the last operation: its name, its inputs, whether its env_dir existed when
\* it began, and the exception it raised
NoOp == [name |-> "none", env_dir |-> "None", existed |-> FALSE, o |-> [clear |-> FALSE,
         with_pip |-> FALSE, upgrade |-> FALSE], args |-> <<>>, site |-> FALSE,
         failAt |-> 0, raised |-> "None"]

\* a plausible slip: upgrade defaulted to True, so that create() skips
\* setup_scripts and post_setup
EnvDefaults_Upgrade == [clear |-> FALSE, with_pip |-> TRUE, upgrade |-> TRUE]

\* the defaults of the EnvBuilder dataclass
EnvDefaults == [clear |-> FALSE, with_pip |-> TRUE, upgrade |-> FALSE]

\* ProjectPy(): __post_init__.  (The git top level is taken as found: getoutput
\* returns the text of the command whatever its exit status.)
ProjectPyInit(st) ==
    IF st.raised # "None" THEN [st |-> st, proj |-> NoProj]
    ELSE LET d == st.depth + 1
             s0 == [st EXCEPT !.depth = d, !.log = Append(@, Ev("ProjectPy", "", "", d))]
             base == [NoProj EXCEPT !.live = TRUE, !.python_exe_site = "sys.executable"]
         IN  IF ~setup_cfg THEN [st |-> [s0 EXCEPT !.depth = st.depth], proj |-> base]
             ELSE LET r == EnvBuilderInit(s0, VenvName, EnvDefaults)
                  IN  [st |-> [r.st EXCEPT !.depth = st.depth],
                       proj |-> IF r.st.raised # "None" THEN NoProj
                                ELSE [base EXCEPT
                                        !.extras_require = extras_require(cfg_extras),
                                        !.install_requires = install_requires(cfg_install),
                                        !.requirements = requirements(cfg_install, cfg_extras),
                                        !.venv = r.builder,
                                        !.python_exe_venv = env_exec_cmd(r.builder.context)]]

-----------------------------------------------------------------------------
(* The OwnerRepo operations as actions *)

Owners == StringsUpTo(MaxOwnerLen)
Repos == StringsUpTo(MaxRepoLen)

NoCall == [op |-> "none", owner |-> <<>>, repo |-> <<>>, text |-> <<>>, scheme |-> "",
           raised |-> "None", why |-> "", ret |-> NoFurl, str |-> <<>>]

\* no project and no environment: the state the OwnerRepo operations run in
EnvIdle ==
    /\ in_env_dir = "None"
    /\ setup_cfg = FALSE
    /\ cfg_install = <<>>
    /\ cfg_extras = <<>>
    /\ fs = [d \in Dirs |-> Absent]
    /\ builder = NoBuilder
    /\ proj = NoProj
    /\ log = <<>>
    /\ opr = NoOp

InitUrl ==
    /\ in_owner \in Owners
    /\ in_repo \in Repos
    /\ obj = NoObj
    /\ call = NoCall
    /\ EnvIdle

\* OwnerRepo(in_owner, in_repo)
New ==
    LET r == OwnerRepo(in_owner, in_repo)
    IN  /\ obj' = IF r.raised = "None" THEN r.obj ELSE obj
        /\ call' = [NoCall EXCEPT !.op = "OwnerRepo", !.owner = in_owner, !.repo = in_repo,
                                  !.raised = r.raised]
        /\ UNCHANGED <<in_owner, in_repo>>
        /\ UNCHANGED envVars

\* OwnerRepo.from_path(Path(in_repo))
FromPath ==
    LET r == from_path(in_repo)
    IN  /\ obj' = IF r.raised = "None" THEN r.obj ELSE obj
        /\ call' = [NoCall EXCEPT !.op = "from_path", !.owner = PathParentName(in_repo),
                                  !.repo = PathName(in_repo), !.text = in_repo,
                                  !.raised = r.raised]
        /\ UNCHANGED <<in_owner, in_repo>>
        /\ UNCHANGED envVars

\* the URL of a scheme that names owner and repo: GITHUB_URL[scheme] (which
\* holds the 'git@' part of the ssh schemes) + "owner/repo.git"
UrlText(scheme, owner, repo) == GITHUB_URL(scheme) \o owner \o <<"/">> \o repo \o DotGit

\* OwnerRepo.from_url(url) for the URL of scheme naming in_owner and in_repo
FromUrl(scheme) ==
    LET text == UrlText(scheme, in_owner, in_repo)
    IN  \E r \in from_url(text) :
            /\ obj' = IF r.raised = "None" THEN r.obj ELSE obj
            /\ call' = [NoCall EXCEPT !.op = "from_url", !.owner = in_owner,
                                      !.repo = in_repo, !.text = text, !.scheme = scheme,
                                      !.raised = r.raised]
            /\ UNCHANGED <<in_owner, in_repo>>
            /\ UNCHANGED envVars

\* obj.url(scheme)
Url(scheme) ==
    /\ obj.live
    /\ LET r == url(obj, scheme)
       IN  call' = [NoCall EXCEPT !.op = "url", !.owner = obj.owner, !.repo = obj.repo,
                                  !.scheme = scheme, !.raised = r.raised, !.why = r.why,
                                  !.ret = r.ret, !.str = r.str]
    /\ UNCHANGED <<obj, in_owner, in_repo>>
    /\ UNCHANGED envVars

NextUrl ==
    \/ New
    \/ FromPath
    \/ \E scheme \in GitScheme \ {"git+file"} : FromUrl(scheme)
    \/ \E scheme \in GitScheme : Url(scheme)

SpecUrl == InitUrl /\ [][NextUrl]_vars

-----------------------------------------------------------------------------
(* The EnvBuilder and ProjectPy operations as actions *)

Start(failAt) == [fs |-> fs, log |-> <<>>, raised |-> "None", depth |-> 0, fail |-> failAt]

\* the lists a setup.cfg of the model may hold
DepLists == UNION {[1..n -> InputDeps] : n \in 0..MaxDeps}
ExtrasDicts == UNION {[1..n -> DepLists] : n \in 0..MaxExtras}

\* EnvBuilder(env_dir=in_env_dir, clear=..., with_pip=..., upgrade=...)
NewEnvBuilder(o, failAt) ==
    LET env_dir == in_env_dir
        r == EnvBuilderInit(Start(failAt), env_dir, o)
    IN  /\ fs' = r.st.fs
        /\ log' = r.st.log
        /\ builder' = r.builder
        /\ opr' = [NoOp EXCEPT !.name = "EnvBuilder", !.env_dir = env_dir, !.o = o,
                               !.existed = EnvDirGiven(env_dir) /\ fs[env_dir].exists,
                               !.failAt = failAt, !.raised = r.st.raised]
        /\ UNCHANGED <<in_env_dir, setup_cfg, cfg_install, cfg_extras, proj>>
        /\ UNCHANGED urlVars

\* ProjectPy()
NewProjectPy(failAt) ==
    LET r == ProjectPyInit(Start(failAt))
    IN  /\ fs' = r.st.fs
        /\ log' = r.st.log
        /\ proj' = r.proj
        /\ builder' = r.proj.venv
        /\ opr' = [NoOp EXCEPT !.name = "ProjectPy", !.env_dir = VenvName,
                               !.existed = fs[VenvName].exists,
                               !.failAt = failAt, !.raised = r.st.raised]
        /\ UNCHANGED <<in_env_dir, setup_cfg, cfg_install, cfg_extras>>
        /\ UNCHANGED urlVars

\* proj.pip_install(*args, site=site, upgrade=upgrade)
PipInstall(args, site, upgrade, failAt) ==
    /\ proj.live
    /\ LET st == pip_install(Start(failAt), proj, args, site, upgrade)
       IN  /\ fs' = st.fs
           /\ log' = st.log
           /\ opr' = [NoOp EXCEPT !.name = "pip_install", !.args = args, !.site = site,
                                  !.o = [NoOp.o EXCEPT !.upgrade = upgrade],
                                  !.failAt = failAt, !.raised = st.raised]
    /\ UNCHANGED <<in_env_dir, setup_cfg, cfg_install, cfg_extras, builder, proj>>
    /\ UNCHANGED urlVars

UrlIdle == in_owner = <<>> /\ in_repo = <<>> /\ obj = NoObj /\ call = NoCall

\* Any of the two directories may be missing, an empty directory or a whole
\* environment; setup.cfg may exist or not.
InitEnv ==
    /\ UrlIdle
    /\ in_env_dir \in {"None", ""} \cup Dirs
    /\ setup_cfg \in BOOLEAN
    /\ cfg_install = <<"click">>
    /\ cfg_extras = <<>>
    /\ fs \in [Dirs -> {Absent, EmptyDir, FullEnv}]
    /\ builder = NoBuilder
    /\ proj = NoProj
    /\ log = <<>>
    /\ opr = NoOp

\* the option sets the constructions are given: the defaults, and each of
\* clear, with_pip and upgrade changed alone
EnvOptions ==
    {EnvDefaults, [EnvDefaults EXCEPT !.clear = TRUE],
     [EnvDefaults EXCEPT !.with_pip = FALSE], [EnvDefaults EXCEPT !.upgrade = TRUE]}

NextEnv ==
    \/ \E o \in EnvOptions, failAt \in 0..MaxFailAt : NewEnvBuilder(o, failAt)
    \/ \E failAt \in 0..MaxFailAt : NewProjectPy(failAt)
    \/ \E args \in {<<>>, <<"toml">>}, site \in BOOLEAN, upgrade \in BOOLEAN,
          failAt \in 0..PipCalls : PipInstall(args, site, upgrade, failAt)

SpecEnv == InitEnv /\ [][NextEnv]_vars

\* The dependency lists: every setup.cfg of the bounds, ProjectPy() applied
\* where <top>/venv exists (no program is run, so none can fail)
InitReq ==
    /\ UrlIdle
    /\ in_env_dir = "None"
    /\ setup_cfg = TRUE
    /\ cfg_install \in DepLists
    /\ cfg_extras \in ExtrasDicts
    /\ fs = [d \in Dirs |-> IF d = VenvName THEN FullEnv ELSE Absent]
    /\ builder = NoBuilder
    /\ proj = NoProj
    /\ log = <<>>
    /\ opr = NoOp

NextReq == NewProjectPy(0)

SpecReq == InitReq /\ [][NextReq]_vars

-----------------------------------------------------------------------------
(* Claims about OwnerRepo, checked under SpecUrl *)

\* a string that can be one path segment of a URL
IsSegment(t) == t # <<>> /\ \A i \in 1..Len(t) : t[i] # "/"

\* C2: from_url on a URL of a supported scheme that names an owner and a
\* repository returns, without raising, an OwnerRepo with that owner.
C2_FromUrlParses ==
    (call.op = "from_url" /\ IsSegment(call.owner) /\ IsSegment(call.repo))
        => (call.raised = "None" /\ obj.live /\ obj.owner = call.owner)

\* C3: url("ssh") is exactly git@github.com:<owner>/<repo>.git.
C3_SshForm ==
    (call.op = "url" /\ call.scheme = "ssh")
        => (call.raised = "None"
            /\ call.str = GITHUB_URL("ssh") \o call.owner \o <<"/">> \o call.repo \o DotGit)

\* an absolute path in the form str(Path(p)) gives back, naming a file
IsCleanAbsolute(p) ==
    /\ startswith(p, <<"/">>)
    /\ PathParts(p) # <<>>
    /\ p = PathRoot(p) \o Join(PathParts(p), <<"/">>)

\* C4: url("git+file") on a repo that is an absolute path has no host and no
\* owner, and its path is the full repo path with ".git" appended, also when
\* the last component holds a dot.  (Stated for clean absolute paths only.)
C4_FileForm ==
    (call.op = "url" /\ call.scheme = "git+file" /\ IsCleanAbsolute(call.repo))
        => (call.raised = "None"
            /\ call.ret.host = <<>>
            /\ call.ret.path = <<call.repo \o DotGit>>)

\* C6: every construction path given an empty owner or an empty repo raises
\* ValueError, and no instance with an empty owner or repo exists.
C6_EmptyRaisesValueError ==
    /\ (call.op \in {"OwnerRepo", "from_path", "from_url"}
          /\ (call.owner = <<>> \/ call.repo = <<>>))
        => call.raised = "ValueError"
    /\ obj.live => (obj.owner # <<>> /\ obj.repo # <<>>)

\* C7: url("git+file") on a repo that does not start with "/" raises
\* ValueError and returns no URL; under the other four schemes url() does not
\* raise.
C7_RelativeFileRepoRejected ==
    call.op = "url" =>
        /\ (call.scheme = "git+file" /\ ~startswith(call.repo, <<"/">>))
              => (call.raised = "ValueError" /\ call.ret = NoFurl /\ call.str = <<>>)
        /\ call.scheme # "git+file" => (call.raised = "None" /\ call.ret # NoFurl)
        /\ (call.raised = "ValueError" /\ call.why = "relative")
              => call.scheme = "git+file"

C7_Witness ==
    /\ call.op = "url" /\ call.scheme = "git+file"
    /\ obj.live /\ ~startswith(obj.repo, <<"/">>)
    /\ call.raised = "ValueError"

\* C9: for https, git+https and git+ssh, url(scheme) is GITHUB_URL[scheme]
\* followed by <owner>/<repo>.git.
C9_PrefixForm ==
    (call.op = "url" /\ call.scheme \in {"https", "git+https", "git+ssh"})
        => (call.raised = "None"
            /\ call.str = GITHUB_URL(call.scheme) \o call.owner \o <<"/">> \o call.repo \o DotGit)

-----------------------------------------------------------------------------
(* Claims about EnvBuilder and ProjectPy, checked under SpecEnv and SpecReq *)

\* the one call a constructor makes for an existing env_dir
EnsureOnly(dir) == <<Ev("ensure_directories", dir, "__post_init__", 0)>>

\* C1: a construction of EnvBuilder for an env_dir that exists when it begins
\* does not run create() or any of its steps: the only call made is
\* ensure_directories() for that directory, and no environment is created.
C1_ExistingNotRecreated ==
    [][(opr'.name = "EnvBuilder" /\ EnvDirGiven(opr'.env_dir) /\ fs[opr'.env_dir].exists)
          => /\ log' = EnsureOnly(opr'.env_dir)
             /\ fs'[opr'.env_dir].created = fs[opr'.env_dir].created
             /\ builder'.context = opr'.env_dir]_vars

\* a later construction for a directory an earlier one created
C1_Witness ==
    /\ opr.name = "EnvBuilder" /\ opr.existed
    /\ fs[opr.env_dir].created = 1
    /\ log = EnsureOnly(opr.env_dir)

Count(x, seq) == Cardinality({i \in 1..Len(seq) : seq[i] = x})

IsSortedSeq(seq) == \A i \in 1..(Len(seq) - 1) : NameLeq(seq[i], seq[i + 1])

NoDuplicates(seq) == \A i, j \in 1..Len(seq) : seq[i] = seq[j] => i = j

\* C5 as stated: ProjectPy.requirements is in ascending order and holds no
\* entry twice.
C5_SortedNoDuplicates ==
    proj.live => (IsSortedSeq(proj.requirements) /\ NoDuplicates(proj.requirements))

\* C5 as amended: ProjectPy.requirements is in ascending order and holds every
\* name as often as install_requires, the deduplicated extras_require and
\* CORE_VENV_DEPS hold it together.
C5_SortedKeepsAll ==
    proj.live =>
        /\ IsSortedSeq(proj.requirements)
        /\ NoDuplicates(proj.extras_require)
        /\ \A name \in Names :
              Count(name, proj.requirements) =
                  Count(name, cfg_install)
                  + (IF \E i \in 1..Len(cfg_extras) : Count(name, cfg_extras[i]) > 0
                     THEN 1 ELSE 0)
                  + Count(name, CORE_VENV_DEPS)

\* a name of CORE_VENV_DEPS listed in install_requires too: it is there twice
C5_Witness ==
    /\ proj.live
    /\ Count("pip", cfg_install) = 1
    /\ Count("pip", proj.requirements) = 2

\* C8: in every pip_install the programs run are at most two, each once; a
\* non-zero exit of one is raised as CalledProcessError to the caller and no
\* further program is run: after a failed first one the second is never made.
C8_NoRetryFailurePropagates ==
    \A i \in 1..Len(log) :
        /\ log[i].ev = "pip_install" =>
              /\ (i + 3 <= Len(log)) => log[i + 3].ev # "check_call"
              /\ (i + 1 <= Len(log) /\ log[i + 1].ev = "check_call" /\ log[i + 1].rc # 0)
                    => (Len(log) = i + 1 /\ opr.raised = "CalledProcessError")
        /\ (log[i].ev = "check_call" /\ log[i].rc # 0)
              => (i = Len(log) /\ opr.raised = "CalledProcessError")
        /\ log[i].ev = "check_call"
              => (i > 1 /\ log[i - 1].ev \in {"pip_install", "check_call"})

\* a pip_install whose first program exits non-zero
C8_Witness ==
    /\ opr.name = "pip_install"
    /\ Len(log) = 2
    /\ log[2].ev = "check_call" /\ log[2].pkgs = <<"pip", "wheel">> /\ log[2].rc # 0
    /\ opr.raised = "CalledProcessError"

\* the calls the constructor itself makes
DirectCalls == {i \in 1..Len(log) : log[i].by = "__post_init__" /\ log[i].depth = 0}

\* C10: a construction of EnvBuilder makes exactly one provisioning call,
\* chosen by the target: create() if env_dir is given and does not exist (and
\* then no ensure_directories() of its own), ensure_directories() alone if it
\* exists, and none, with context left None, if no env_dir is given.
C10_OneProvisioningAction ==
    opr.name = "EnvBuilder" =>
        /\ ~EnvDirGiven(opr.env_dir)
              => (log = <<>> /\ builder.live /\ builder.context = "None")
        /\ (EnvDirGiven(opr.env_dir) /\ opr.existed) => log = EnsureOnly(opr.env_dir)
        /\ (EnvDirGiven(opr.env_dir) /\ ~opr.existed)
              => /\ DirectCalls = {1}
                 /\ log[1] = Ev("create", opr.env_dir, "__post_init__", 0)

\* a construction for a missing directory, which ran create() to the end
C10_Witness ==
    /\ opr.name = "EnvBuilder" /\ EnvDirGiven(opr.env_dir) /\ ~opr.existed
    /\ opr.raised = "None"
    /\ log[1].ev = "create"
    /\ fs[opr.env_dir].created = 1

\* the option lists as the commands must carry them
QuietOptions == <<"-m", "pip", "install", "--quiet", "--no-warn-script-location">>
UpgradeOptions == QuietOptions \o <<"--upgrade">>

\* the two programs that follow the pip_install logged at position i ran, in
\* this order, on interpreter exe: the upgrade of pip and wheel, then the
\* install of pkgs, with the upgrade options iff upgrade
TwoCallsInOrder(i, exe, pkgs, upgrade) ==
    /\ i + 2 <= Len(log)
    /\ log[i + 1].ev = "check_call" /\ log[i + 1].rc = 0
    /\ log[i + 1].exe = exe
    /\ log[i + 1].opts = UpgradeOptions
    /\ log[i + 1].pkgs = <<"pip", "wheel">>
    /\ log[i + 2].ev = "check_call" /\ log[i + 2].rc = 0
    /\ log[i + 2].exe = exe
    /\ log[i + 2].opts = (IF upgrade THEN UpgradeOptions ELSE QuietOptions)
    /\ log[i + 2].pkgs = pkgs
    /\ (i + 3 <= Len(log)) => log[i + 3].ev # "check_call"

\* whether the pip_install logged at position i ended without raising: both
\* of its programs ran and exited zero
PipInstallSucceeded(i) ==
    /\ log[i].ev = "pip_install"
    /\ i + 2 <= Len(log)
    /\ log[i + 1].ev = "check_call" /\ log[i + 1].rc = 0
    /\ log[i + 2].ev = "check_call" /\ log[i + 2].rc = 0

\* C11: every successful pip_install runs exactly two programs, in a fixed
\* order, on one interpreter (the site one iff site): first the upgrade of pip
\* and wheel with the upgrade options, then the install of the given packages
\* (of the requirements when none are given) with the upgrade options iff
\* upgrade and the quiet install options otherwise.  The pip_install that
\* post_setup makes is one with no packages, site=False and upgrade=False.
C11_TwoInvocationsInOrder ==
    /\ (opr.name = "pip_install" /\ opr.raised = "None")
          => /\ Len(log) = 3
             /\ log[1].ev = "pip_install"
             /\ TwoCallsInOrder(1,
                    IF opr.site THEN proj.python_exe_site ELSE proj.python_exe_venv,
                    IF opr.args # <<>> THEN opr.args ELSE proj.requirements,
                    opr.o.upgrade)
    /\ opr.name # "pip_install"
          => \A i \in 1..Len(log) :
                PipInstallSucceeded(i)
                    => TwoCallsInOrder(i, env_exec_cmd(VenvName),
                                       requirements(cfg_install, cfg_extras), FALSE)

\* a successful pip_install of the requirements into the venv, upgrading
C11_Witness ==
    /\ opr.name = "pip_install" /\ opr.raised = "None"
    /\ ~opr.site /\ opr.o.upgrade /\ opr.args = <<>>
    /\ Len(log) = 3
    /\ log[3].opts = UpgradeOptions
    /\ log[3].pkgs = proj.requirements /\ proj.requirements # <<>>

\* the positions of the log at which ev was called
Calls(ev) == {i \in 1..Len(log) : log[i].ev = ev}

=============================================================================
